---- MODULE Spec2Model ----
(***************************************************************************)
(* Model of scripts/load.py: the Shopify upload pipeline.                  *)
(*   - Progress Store   save_completed_order / load_completed_orders /     *)
(*                      clear_progress on data/upload_progress.json        *)
(*   - Rate Limiter     check_rate_limit_and_wait                          *)
(*   - Upload Client    upload_to_shopify (retry cycles, attempts, 429)    *)
(*   - Orchestrator     batch_upload                                       *)
(* Durations are in milliseconds.  A POST is one step: its outcome (a      *)
(* response with status and headers, or a transport failure) is an input.  *)
(***************************************************************************)
EXTENDS Integers, Sequences, FiniteSets, TLC

VARIABLES
    \* ---- the progress file on disk
    file,
    \* ---- one call of upload_to_shopify
    upc,               \* "idle", "try" (about to POST), "returned", "raised"
    max_retries, max_retry_cycles,
    cycle, attempt,    \* loop indices of the POST about to be issued
    posts,             \* POSTs issued by the call so far
    last,              \* outcome of the latest POST
    slept,             \* the sleeps of the latest step, in order (ms)
    retval,            \* what the call returned: "none", "body", "None"
    raisedBy,          \* exception that left the call: "none", or its class
    rlCalls,           \* invocations of check_rate_limit_and_wait in the call
    rlReturn,          \* what check_rate_limit_and_wait returned on the latest POST
    nAccepted,         \* POSTs of the call answered with a non-429 status < 400
    allTransport,      \* every POST of the call so far failed at transport level
    \* ---- one run of batch_upload
    bpc,               \* "idle", "loop", "uploaded", "saving", "done", "crashed"
    endpoint, items, batch_size, resume_mode,
    completed_orders,  \* the list loaded at the start of the run
    i, j,              \* batch start (0-based) and index inside the batch
    successes,
    result,            \* result = upload_to_shopify(endpoint, item)
    pending,           \* the list save_completed_order is about to write
    \* ---- history of the run(s)
    runs,              \* runs of batch_upload started so far
    store0,            \* load_completed_orders() as of the start of the run
    processed,         \* item indices whose processing began, in order
    uploadCalls,       \* item indices handed to the Upload Client, in order
    skippedIdx,        \* item indices skipped as already completed
    returnedIdx,       \* item indices for which the Upload Client returned
    acceptedIdx,       \* item indices for which some POST was accepted
    recordedIdx,       \* item indices whose id this run wrote to the store
    savedOK,           \* ids whose save_completed_order call completed
    \* ---- direct use of the Progress Store
    spc,               \* "idle", "saved", "loaded", "cleared", "raised"
    sarg,              \* the id passed, when the latest call is a save
    sprev,             \* the file before the latest store call
    sret,              \* the list returned, when the latest call is a load
    swrote,            \* the latest call opened the file for writing
    recorded,          \* ids recorded since the store was last empty
    fromEmpty,         \* the store was empty when recording started
    \* ---- one call of load_woocommerce_orders
    lpc,               \* "idle", "fixing" (in the loop of line 372), "loaded"
    raw,               \* the dicts json.load returned, as they are now
    raw0,              \* the same dicts as json.load returned them
    fk,                \* orders the loop of line 372 has been through
    fixed_order,       \* the latest fix_order_data_for_shopify returned:
                       \* "none" (no call yet), "None", or "order" (the dict)
    fixed_orders,      \* the list of line 371: positions in raw of its dicts
    test_mode, test_count,
    orders,            \* the list load_woocommerce_orders returns
    \* ---- one call of format_phone_e164
    ppc,               \* "idle", "done"
    phone,             \* the argument
    formatted,         \* the value returned
    \* ---- history kept only by the specifications that need it
    createdEarlier,    \* order ids of which a POST of an earlier run was
                       \* accepted by the destination
    file0              \* the progress file as of the start of the run

uploadVars == <<upc, max_retries, max_retry_cycles, cycle, attempt, posts, last,
                slept, retval, raisedBy, rlCalls, rlReturn, nAccepted, allTransport>>
batchVars  == <<bpc, endpoint, items, batch_size, resume_mode, completed_orders,
                i, j, successes, result, pending>>
histVars   == <<runs, store0, processed, uploadCalls, skippedIdx, returnedIdx,
                acceptedIdx, recordedIdx, savedOK>>
storeVars  == <<spc, sarg, sprev, sret, swrote, recorded, fromEmpty>>
orderVars  == <<lpc, raw, raw0, fk, fixed_order, fixed_orders, test_mode,
                test_count, orders>>
phoneVars  == <<ppc, phone, formatted>>
ghostVars  == <<createdEarlier, file0>>
vars == <<file, uploadVars, batchVars, histVars, storeVars, orderVars, phoneVars, ghostVars>>

(***************************************************************************)
(* Bounds of the model                                                     *)
(***************************************************************************)
MaxItems   == 2     \* longest item list
MaxId      == 2     \* woo_order_id ranges over 0..MaxId, or is missing
MaxBatch   == 2     \* largest batch_size
MaxRuns    == 2     \* runs of batch_upload in one behaviour
MaxR       == 3     \* largest max_retries tried on a direct call
MaxC       == 5     \* largest max_retry_cycles tried on a direct call
MaxStoreId == 2     \* ids used on direct Progress Store calls: 0..MaxStoreId
MaxOrders  == 2     \* longest export handed to the Sanitizer
MaxDummyOrders == 5 \* longest list handed to create_dummy_test_orders
MaxCount   == 6     \* largest test_count
MaxPhoneDigits == 12 \* longest run of digits in a phone
MaxBatchItems  == 3  \* longest item list run with any batch_size
MaxBatchSize   == 3  \* largest batch_size of such a run

(***************************************************************************)
(* Program constants                                                       *)
(***************************************************************************)
DefaultMaxRetries     == 3
DefaultMaxRetryCycles == 5
DefaultRetryAfter     == 5      \* seconds
CycleCooldown         == 10     \* seconds
RequestsMinError      == 400    \* lowest status treated as an error
TooManyRequests       == 429
DefaultTestCount      == 10     \* test_upload: test_count=10

RECURSIVE Pow2(_)
Pow2(n) == IF n = 0 THEN 1 ELSE 2 * Pow2(n - 1)

Range(s) == {s[k] : k \in 1..Len(s)}

Ms(seconds) == seconds * 1000

(***************************************************************************)
(* Progress Store.  The file is absent, or holds text that is not JSON     *)
(* ("invalid": empty or cut short), or JSON that is no object              *)
(* ("nonobject"), or a JSON object; of an object only its completed_orders *)
(* entry matters: missing, a list of ids, a dict, or a scalar (null, a     *)
(* number, a string).                                                      *)
(***************************************************************************)
NoId == -1          \* the item has no woo_order_id key

NoEntry     == [t |-> "missing", v |-> <<>>]
ListOf(l)   == [t |-> "list", v |-> l]
NoFile      == [kind |-> "absent", entry |-> NoEntry]
Truncated   == [kind |-> "invalid", entry |-> NoEntry]

\* json.dump({'completed_orders': l, 'last_updated': ...}) once fully written
json_dump(l) == [kind |-> "object", entry |-> ListOf(l)]

\* load_completed_orders(): what the call returns for the file f
load_completed_orders(f) ==
    IF f.kind = "absent" THEN ListOf(<<>>)                 \* not os.path.exists
    ELSE IF f.kind = "invalid" THEN ListOf(<<>>)           \* json.load raises
    ELSE IF f.kind = "nonobject" THEN ListOf(<<>>)         \* data.get raises
    ELSE IF f.entry.t = "missing" THEN ListOf(<<>>)        \* .get default
    ELSE f.entry

\* The ids a resumed run would treat as completed
LoadedIds(f) ==
    LET co == load_completed_orders(f)
    IN  IF co.t = "list" THEN Range(co.v) ELSE {}

\* Mutant: the list written holds the new id alone, not the ids loaded.
save_completed_order_Overwrites(f, id) ==
    LET co == load_completed_orders(f)
    IN  IF co.t # "list" THEN [raises |-> TRUE, writes |-> FALSE, list |-> <<>>]
        ELSE IF id \notin Range(co.v)
             THEN [raises |-> FALSE, writes |-> TRUE, list |-> <<id>>]
             ELSE [raises |-> FALSE, writes |-> FALSE, list |-> co.v]

\* Mutant: the id is appended and the file rewritten without the
\* `not in completed_orders` test.
save_completed_order_NoCheck(f, id) ==
    LET co == load_completed_orders(f)
    IN  IF co.t # "list" THEN [raises |-> TRUE, writes |-> FALSE, list |-> <<>>]
        ELSE [raises |-> FALSE, writes |-> TRUE, list |-> Append(co.v, id)]

\* save_completed_order(id) up to the point where the file is opened:
\* raises (TypeError / AttributeError on a non-list), or writes the list
\* with id appended, or leaves the file alone.
save_completed_order(f, id) ==
    LET co == load_completed_orders(f)
    IN  IF co.t = "scalar" THEN [raises |-> TRUE, writes |-> FALSE, list |-> <<>>]
        ELSE IF co.t = "dict" THEN [raises |-> TRUE, writes |-> FALSE, list |-> <<>>]
        ELSE IF id \notin Range(co.v)
             THEN [raises |-> FALSE, writes |-> TRUE, list |-> Append(co.v, id)]
             ELSE [raises |-> FALSE, writes |-> FALSE, list |-> co.v]

\* clear_progress(): the file afterwards
clear_progress(f) == NoFile

(***************************************************************************)
(* Rate Limiter.  A header value is a '/'-separated text; each part is a   *)
(* decimal integer or not.                                                 *)
(***************************************************************************)
Num(n)   == [num |-> TRUE, val |-> n]
NaN      == [num |-> FALSE, val |-> 0]
NoHeader == [present |-> FALSE, parts |-> <<>>]
Hdr(ps)  == [present |-> TRUE, parts |-> ps]

\* response_headers.get('X-Shopify-Shop-Api-Call-Limit', '0/40').split('/')
LimitParts(h) == IF h.present THEN h.parts ELSE <<Num(0), Num(40)>>

\* check_rate_limit_and_wait(headers): the sleep, the pair returned, and the
\* exception that escapes ("none" when it returns)
check_rate_limit_and_wait(h) ==
    LET ps == LimitParts(h)
    IN  IF Len(ps) # 2 \/ \E k \in 1..Len(ps) : ~ps[k].num
        THEN \* ValueError: caught
             [sleep |-> 500, current |-> 0, max_limit |-> 40, raises |-> "none"]
        ELSE LET current == ps[1].val
                 max_limit == ps[2].val
             IN  IF max_limit = 0
                 THEN \* current / max_limit: ZeroDivisionError, not caught
                      [sleep |-> 0, current |-> current, max_limit |-> max_limit,
                       raises |-> "ZeroDivisionError"]
                 ELSE [sleep |-> IF current >= 35 THEN 2000
                                 ELSE IF current >= 30 THEN 1000
                                 ELSE IF current >= 20 THEN 500
                                 ELSE 100,
                       current |-> current, max_limit |-> max_limit,
                       raises |-> "none"]

(***************************************************************************)
(* Phone Normalizer: format_phone_e164(phone).  A phone is None, a key     *)
(* that is absent, or a text: a sequence of one-character strings.         *)
(***************************************************************************)
PNone     == [t |-> "none", s |-> <<>>]
PAbsent   == [t |-> "absent", s |-> <<>>]
PStr(cs)  == [t |-> "str", s |-> cs]

\* \d
IsDigit(ch) == ch \in {"0", "1", "2", "3", "4", "5", "6", "7", "8", "9"}

\* `if phone` / `order.get('phone')`: None, a missing key and '' are falsy
PhoneTruthy(p) == p.t = "str" /\ p.s # <<>>

\* Mutant: ten digits get the prefix + alone.
format_phone_e164_NoCountry(p) ==
    IF ~PhoneTruthy(p) THEN PNone
    ELSE LET digits_only == SelectSeq(p.s, IsDigit)
         IN  IF Len(digits_only) >= 10 THEN PStr(<<"+">> \o digits_only)
             ELSE PNone

format_phone_e164(p) ==
    IF ~PhoneTruthy(p) THEN PNone                          \* if not phone
    ELSE LET digits_only == SelectSeq(p.s, IsDigit)        \* re.sub(r'[^\d]', '')
         IN  IF Len(digits_only) = 10
             THEN PStr(<<"+", "1">> \o digits_only)
             ELSE IF Len(digits_only) = 11 /\ digits_only[1] = "1"
             THEN PStr(<<"+">> \o digits_only)
             ELSE IF Len(digits_only) >= 10
             THEN PStr(<<"+">> \o digits_only)
             ELSE PNone

(***************************************************************************)
(* Orders.  A field holds Absent (the key is not in the dict), None, or a  *)
(* text.  An address is a dict or is absent.  Names and notes are kept as  *)
(* records so that "Customer{i+1}" and "TEST ORDER {i+1} ... #{id}" keep   *)
(* their parts.                                                            *)
(***************************************************************************)
Absent == "<absent>"
None   == "None"

\* dict.get(key)
Get(v) == IF v = Absent THEN None ELSE v

\* truth value of dict.get(key) for a text field
Truthy(v) == v \notin {Absent, None, ""}

Name(s)      == [s |-> s, n |-> 0]
Customer(n)  == [s |-> "Customer", n |-> n]              \* f"Customer{i+1}"
NoNote       == [t |-> "absent", n |-> 0, id |-> NoId]
TestNote(n, id) == [t |-> "TEST ORDER", n |-> n, id |-> id]
NoAddress    == [present |-> FALSE, first_name |-> Name(""), last_name |-> Name(""),
                 phone |-> PAbsent]
Address(fn, ln, ph) ==
    [present |-> TRUE, first_name |-> Name(fn), last_name |-> Name(ln),
     phone |-> ph]

\* test_emails
TestEmails ==
    <<"charles@linkinguplocal.com", "m@charles.so", "charlesterzich@gmail.com",
      "trevor@trevorfosterstudio.com">>

\* An order of the export with the fields the Sanitizer reads
Order(id, fs, pa, ca, em) ==
    [woo_order_id |-> id, financial_status |-> fs, processed_at |-> pa,
     created_at |-> ca, email |-> em, fulfillment_status |-> Absent,
     phone |-> PAbsent, billing_address |-> NoAddress,
     shipping_address |-> NoAddress, note |-> NoNote]

\* Mutant: processed_at is left on an order that is not paid.
fix_order_data_for_shopify_KeepsProcessedAt(order) ==
    IF Get(order.financial_status) = "voided"
    THEN [order |-> order, excluded |-> TRUE]
    ELSE LET o1 == IF Get(order.financial_status) = "paid"
                   THEN IF ~Truthy(order.processed_at)
                        THEN [order EXCEPT !.processed_at = Get(order.created_at)]
                        ELSE IF order.processed_at \in {None, "", "null"}
                        THEN [order EXCEPT !.processed_at = Get(order.created_at)]
                        ELSE order
                   ELSE order
         IN  [order |-> o1, excluded |-> ~Truthy(o1.email)]

\* fix_order_data_for_shopify(order): the dict passed in as the call leaves
\* it, and whether None is returned; otherwise that same dict is returned.
fix_order_data_for_shopify(order) ==
    IF Get(order.financial_status) = "voided"
    THEN [order |-> order, excluded |-> TRUE]
    ELSE LET o1 == IF Get(order.financial_status) = "paid"
                   THEN IF ~Truthy(order.processed_at)
                        THEN [order EXCEPT !.processed_at = Get(order.created_at)]
                        ELSE IF order.processed_at \in {None, "", "null"}
                        THEN [order EXCEPT !.processed_at = Get(order.created_at)]
                        ELSE order
                   ELSE \* if 'processed_at' in order: del order['processed_at']
                        [order EXCEPT !.processed_at = Absent]
         IN  [order |-> o1, excluded |-> ~Truthy(o1.email)]

\* The body of `for i in range(test_count)` on a copy of orders[i]
DummyOrder(o, idx) ==
    LET b == o.billing_address
        sh == o.shipping_address
    IN  [o EXCEPT
           !.email = TestEmails[(idx % Len(TestEmails)) + 1],
           !.billing_address =
               IF b.present
               THEN [b EXCEPT !.first_name = Name("Test"),
                              !.last_name = Customer(idx + 1),
                              !.phone = format_phone_e164(b.phone)]
               ELSE b,
           !.phone = IF PhoneTruthy(o.phone) THEN format_phone_e164(o.phone)
                     ELSE o.phone,
           !.shipping_address =
               IF sh.present
               THEN [sh EXCEPT !.first_name = Name("Test"),
                               !.last_name = Customer(idx + 1)]
               ELSE sh,
           !.note = TestNote(idx + 1, o.woo_order_id)]

\* Mutant: the orders are changed in place instead of on a deep copy.
create_dummy_test_orders_NoCopy(os, n) ==
    LET cnt == IF Len(os) < n THEN Len(os) ELSE n   \* test_count = len(orders)
    IN  [orders |-> [k \in 1..Len(os) |->
                        IF k <= cnt THEN DummyOrder(os[k], k - 1) ELSE os[k]],
         dummy_orders |-> [k \in 1..cnt |-> DummyOrder(os[k], k - 1)]]

\* create_dummy_test_orders(orders, test_count): the list passed in as the
\* call leaves it, and the list returned
create_dummy_test_orders(os, n) ==
    LET cnt == IF Len(os) < n THEN Len(os) ELSE n   \* test_count = len(orders)
    IN  [orders |-> os,
         dummy_orders |-> [k \in 1..cnt |-> DummyOrder(os[k], k - 1)]]

\* The body of `for order in orders` of the real path: lines 386-394
FormatPhones(o) ==
    LET b == o.billing_address
        sh == o.shipping_address
    IN  [o EXCEPT
           !.phone = IF PhoneTruthy(o.phone) THEN format_phone_e164(o.phone)
                     ELSE o.phone,
           !.billing_address =
               IF b.present /\ PhoneTruthy(b.phone)
               THEN [b EXCEPT !.phone = format_phone_e164(b.phone)] ELSE b,
           !.shipping_address =
               IF sh.present /\ PhoneTruthy(sh.phone)
               THEN [sh EXCEPT !.phone = format_phone_e164(sh.phone)] ELSE sh]

(***************************************************************************)
(* Upload Client: upload_to_shopify(endpoint, data, max_retries,           *)
(* max_retry_cycles).                                                      *)
(***************************************************************************)
\* What requests.post produced: a response, or a RequestException raised by
\* the transport (connection error, timeout).
NoPost    == [kind |-> "none", status |-> 0, limit |-> NoHeader, retryAfter |-> NoHeader]
Transport == [kind |-> "transport", status |-> 0, limit |-> NoHeader, retryAfter |-> NoHeader]
Resp(st, lim, ra) == [kind |-> "response", status |-> st, limit |-> lim, retryAfter |-> ra]

Currents == {0, 19, 20, 29, 30, 34, 35, 38}
LimitHeaders ==
    {NoHeader} \cup {Hdr(<<Num(c), Num(40)>>) : c \in Currents}
    \cup {Hdr(<<Num(5), Num(0)>>), Hdr(<<NaN, Num(40)>>), Hdr(<<Num(5)>>),
          Hdr(<<Num(1), Num(2), Num(3)>>)}
\* Retry-After: absent, "2", or a text int() rejects (Shopify sends "2.0")
RetryAfters == {NoHeader, Hdr(<<Num(2)>>), Hdr(<<NaN>>)}

Responses ==
    {Transport}
    \cup {Resp(200, h, NoHeader) : h \in LimitHeaders}
    \cup {Resp(201, NoHeader, NoHeader)}
    \cup {Resp(429, NoHeader, ra) : ra \in RetryAfters}
    \cup {Resp(422, NoHeader, NoHeader), Resp(500, NoHeader, NoHeader)}

Accepted(r) ==
    r.kind = "response" /\ r.status # TooManyRequests /\ r.status < RequestsMinError

\* int(response.headers.get('Retry-After', 5))
retry_after(r) ==
    IF ~r.retryAfter.present
    THEN [raises |-> FALSE, seconds |-> DefaultRetryAfter]
    ELSE IF r.retryAfter.parts[1].num
         THEN [raises |-> FALSE, seconds |-> r.retryAfter.parts[1].val]
         ELSE [raises |-> TRUE, seconds |-> 0]

\* wait_time = 2 ** attempt
Backoff(a) == Ms(Pow2(a))

\* Mutant: `continue` repeats the attempt it is in.
Continue_SameAttempt(c, a, R, C) ==
    [upc |-> "try", cycle |-> c, attempt |-> a]

\* `continue` at (c, a): the for loops move to the next attempt, then to the
\* next cycle, and fall off the end, where the function returns None.
Continue(c, a, R, C) ==
    IF a + 1 < R THEN [upc |-> "try", cycle |-> c, attempt |-> a + 1]
    ELSE IF c + 1 < C THEN [upc |-> "try", cycle |-> c + 1, attempt |-> 0]
    ELSE [upc |-> "returned", cycle |-> c, attempt |-> a]

\* Mutant: the handler gives up after the first cycle instead of cooling down
\* and starting a new one.
OnRequestException_NoNewCycle(c, a, R, C) ==
    IF a < R - 1
    THEN [upc |-> "try", cycle |-> c, attempt |-> a + 1, sleep |-> <<Backoff(a)>>]
    ELSE [upc |-> "raised", cycle |-> c, attempt |-> a, sleep |-> <<>>]

\* except requests.exceptions.RequestException at (c, a)
OnRequestException(c, a, R, C) ==
    IF a < R - 1
    THEN [upc |-> "try", cycle |-> c, attempt |-> a + 1, sleep |-> <<Backoff(a)>>]
    ELSE IF c < C - 1
         THEN [upc |-> "try", cycle |-> c + 1, attempt |-> 0,
               sleep |-> <<Ms(CycleCooldown)>>]
         ELSE [upc |-> "raised", cycle |-> c, attempt |-> a, sleep |-> <<>>]

\* One iteration of the attempt loop at (c, a) on outcome r: where the call
\* goes, the sleeps it makes, what it returns or raises.
Iteration(r, c, a, R, C) ==
    IF r.kind = "transport"
    THEN LET h == OnRequestException(c, a, R, C)
         IN  [upc |-> h.upc, cycle |-> h.cycle, attempt |-> h.attempt,
              sleeps |-> h.sleep, retval |-> "none",
              raisedBy |-> IF h.upc = "raised" THEN "RequestException" ELSE "none",
              rl |-> 0, rlr |-> <<>>]
    ELSE IF r.status = TooManyRequests
    THEN LET ra == retry_after(r)
             n  == Continue(c, a, R, C)
         IN  IF ra.raises
             THEN [upc |-> "raised", cycle |-> c, attempt |-> a, sleeps |-> <<>>,
                   retval |-> "none", raisedBy |-> "ValueError", rl |-> 0, rlr |-> <<>>]
             ELSE [upc |-> n.upc, cycle |-> n.cycle, attempt |-> n.attempt,
                   sleeps |-> <<Ms(ra.seconds)>>,
                   retval |-> IF n.upc = "returned" THEN "None" ELSE "none",
                   raisedBy |-> "none", rl |-> 0, rlr |-> <<>>]
    ELSE IF r.status = 200
    THEN LET w == check_rate_limit_and_wait(r.limit)
         IN  IF w.raises # "none"
             THEN [upc |-> "raised", cycle |-> c, attempt |-> a, sleeps |-> <<>>,
                   retval |-> "none", raisedBy |-> w.raises, rl |-> 1, rlr |-> <<>>]
             ELSE [upc |-> "returned", cycle |-> c, attempt |-> a,
                   sleeps |-> <<w.sleep>>, retval |-> "body",
                   raisedBy |-> "none", rl |-> 1,
                   rlr |-> <<w.current, w.max_limit>>]
    ELSE IF r.status >= RequestsMinError
    THEN \* response.raise_for_status(): HTTPError, a RequestException
         LET h == OnRequestException(c, a, R, C)
         IN  [upc |-> h.upc, cycle |-> h.cycle, attempt |-> h.attempt,
              sleeps |-> h.sleep, retval |-> "none",
              raisedBy |-> IF h.upc = "raised" THEN "HTTPError" ELSE "none",
              rl |-> 0, rlr |-> <<>>]
    ELSE [upc |-> "returned", cycle |-> c, attempt |-> a, sleeps |-> <<>>,
          retval |-> "body", raisedBy |-> "none", rl |-> 0, rlr |-> <<>>]

\* A whole call of upload_to_shopify on the outcomes rs of its POSTs, in
\* order: the state in which the call ends, or in which rs runs out.
CallStart ==
    [upc |-> "try", cycle |-> 0, attempt |-> 0, posts |-> 0, retval |-> "none",
     raisedBy |-> "none", nAccepted |-> 0]

RECURSIVE UploadFrom(_, _, _, _)
UploadFrom(st, rs, R, C) ==
    IF st.upc # "try" \/ rs = <<>> THEN st
    ELSE LET n == Iteration(Head(rs), st.cycle, st.attempt, R, C)
         IN  UploadFrom([upc |-> n.upc, cycle |-> n.cycle, attempt |-> n.attempt,
                         posts |-> st.posts + 1, retval |-> n.retval,
                         raisedBy |-> n.raisedBy,
                         nAccepted |-> st.nAccepted
                                       + (IF Accepted(Head(rs)) THEN 1 ELSE 0)],
                        Tail(rs), R, C)

UploadRun(rs, R, C) ==
    IF R = 0 \/ C = 0
    THEN [CallStart EXCEPT !.upc = "returned", !.retval = "None"]
    ELSE UploadFrom(CallStart, rs, R, C)

\* rs is the full list of outcomes of one call: the call ends on its last one
Complete(rs, R, C) ==
    LET f == UploadRun(rs, R, C)
    IN  f.upc \in {"returned", "raised"} /\ f.posts = Len(rs)

\* Entry of upload_to_shopify: the loops start at cycle 0, attempt 0.
UploadEnter(R, C) ==
    /\ upc' = "try"
    /\ max_retries' = R
    /\ max_retry_cycles' = C
    /\ cycle' = 0 /\ attempt' = 0 /\ posts' = 0
    /\ last' = NoPost /\ slept' = <<>>
    /\ retval' = "none" /\ raisedBy' = "none"
    /\ rlCalls' = 0 /\ rlReturn' = <<>>
    /\ nAccepted' = 0 /\ allTransport' = TRUE

\* requests.post at (cycle, attempt) and the rest of that iteration
UploadPost(r) ==
    LET n == Iteration(r, cycle, attempt, max_retries, max_retry_cycles)
    IN  /\ upc = "try"
        /\ upc' = n.upc
        /\ cycle' = n.cycle /\ attempt' = n.attempt
        /\ posts' = posts + 1
        /\ last' = r
        /\ slept' = n.sleeps
        /\ retval' = n.retval
        /\ raisedBy' = n.raisedBy
        /\ rlCalls' = rlCalls + n.rl
        /\ rlReturn' = n.rlr
        /\ nAccepted' = nAccepted + (IF Accepted(r) THEN 1 ELSE 0)
        /\ allTransport' = (allTransport /\ r.kind = "transport")
        /\ UNCHANGED <<max_retries, max_retry_cycles>>

(***************************************************************************)
(* Batch Orchestrator: batch_upload(endpoint, items, batch_size,           *)
(* resume_mode).  An item is a record of the two fields batch_upload       *)
(* reads.  Orders reach batch_upload through fix_order_data_for_shopify,   *)
(* so they carry an email; customers carry no woo_order_id.                *)
(***************************************************************************)
Ids == {NoId} \cup (0..MaxId)
OrderItems    == [woo_order_id : Ids, email : {TRUE}]
CustomerItems == [woo_order_id : {NoId}, email : BOOLEAN]

SeqsUpTo(S, n) == UNION {[1..m -> S] : m \in 0..n}

\* The outcomes tried in a run: one response per branch of the attempt loop
BatchResponses ==
    {Transport,
     Resp(200, NoHeader, NoHeader), Resp(200, Hdr(<<Num(5), Num(0)>>), NoHeader),
     Resp(201, NoHeader, NoHeader),
     Resp(429, NoHeader, NoHeader), Resp(429, NoHeader, Hdr(<<NaN>>)),
     Resp(500, NoHeader, NoHeader)}

\* The outcome lists tried for one call: one outcome alone; the same outcome
\* on every attempt of the call; the same outcome on every attempt but the
\* last, which is answered 200
Repeat(r, n) == [k \in 1..n |-> r]
DefaultAttempts == DefaultMaxRetries * DefaultMaxRetryCycles
Retried ==
    {Transport, Resp(429, NoHeader, NoHeader), Resp(500, NoHeader, NoHeader)}
Scripts ==
    {<<t>> : t \in BatchResponses}
    \cup {Repeat(c, DefaultAttempts) : c \in Retried}
    \cup {Repeat(c, DefaultAttempts - 1) \o <<Resp(200, NoHeader, NoHeader)>> :
            c \in Retried}

\* The lists that are the outcomes of one whole default call, and how the
\* call ends on each
CompleteScripts ==
    {rs \in Scripts : Complete(rs, DefaultMaxRetries, DefaultMaxRetryCycles)}
CallOutcome ==
    [rs \in CompleteScripts |->
        UploadRun(rs, DefaultMaxRetries, DefaultMaxRetryCycles)]

ItemIdx == i + j + 1
Item    == items[ItemIdx]

\* Mutant: the membership test never finds the id.
InCompleted_Never(id, co) == FALSE

\* item.get('woo_order_id') in completed_orders
InCompleted(id, co) == co.t = "list" /\ id \in Range(co.v)

\* if endpoint == "orders" and item.get('woo_order_id') in completed_orders
SkipCompleted(ep, id, co) == ep = "orders" /\ InCompleted(id, co)

\* Mutant: the email test is missing.
SkipCustomer_Never(ep, item) == FALSE

\* if endpoint == "customers": if not item.get("email")
SkipCustomer(ep, item) == ep = "customers" /\ ~item.email

\* if endpoint == "orders" and item.get('woo_order_id')  (0 and None are falsy)
SavesProgress(ep, id) == ep = "orders" /\ id # NoId /\ id # 0

\* successes += 1
CountSuccess(n) == n + 1

\* Mutant: the inner loop stops after the first item of each batch.
NextPos_FirstOfBatch(bi, bj, total, bs) ==
    IF bi + bs < total THEN [i |-> bi + bs, j |-> 0, done |-> FALSE]
    ELSE [i |-> bi, j |-> bj, done |-> TRUE]

\* The loops `for i in range(0, total_items, batch_size)` and
\* `for item in items[i:i + batch_size]`: the position after (bi, bj).
NextPos(bi, bj, total, bs) ==
    LET blen == IF bi + bs <= total THEN bs ELSE total - bi
    IN  IF bj + 1 < blen THEN [i |-> bi, j |-> bj + 1, done |-> FALSE]
        ELSE IF bi + bs < total THEN [i |-> bi + bs, j |-> 0, done |-> FALSE]
        ELSE [i |-> bi, j |-> bj, done |-> TRUE]

\* `continue`, or the end of the loop body: on to the next item
Advance ==
    LET n == NextPos(i, j, Len(items), batch_size)
    IN  /\ i' = n.i /\ j' = n.j
        /\ bpc' = IF n.done THEN "done" ELSE "loop"

\* Mutant: the exception leaves batch_upload instead of being caught.
OnItemException_Aborts ==
    /\ i' = i /\ j' = j
    /\ bpc' = "done"

\* except Exception as e: ... continue
OnItemException == Advance

\* The order ids of which a POST of the present run was accepted: each is
\* an order created in the destination.
CreatedNow ==
    IF endpoint = "orders"
    THEN {items[k].woo_order_id : k \in acceptedIdx} \ {NoId}
    ELSE {}

\* batch_upload is called: lines 159-168
BatchStart(bs, rm) ==
    /\ bpc \in {"idle", "done", "crashed"}
    /\ runs < MaxRuns
    /\ runs' = runs + 1
    /\ batch_size' = bs
    /\ resume_mode' = rm
    /\ successes' = 0
    /\ completed_orders' = IF endpoint = "orders" /\ rm
                           THEN load_completed_orders(file) ELSE ListOf(<<>>)
    /\ store0' = LoadedIds(file)
    /\ i' = 0 /\ j' = 0
    /\ bpc' = IF Len(items) = 0 THEN "done" ELSE "loop"
    /\ result' = "none"
    /\ pending' = <<>>
    /\ processed' = <<>> /\ uploadCalls' = <<>>
    /\ skippedIdx' = {} /\ returnedIdx' = {} /\ acceptedIdx' = {}
    /\ recordedIdx' = {}
    /\ UNCHANGED <<file, endpoint, items, savedOK,
                   uploadVars, storeVars, orderVars, phoneVars>>

\* An iteration of `for item in batch` that skips the item: lines 173-186
SkipItem ==
    /\ bpc = "loop"
    /\ processed' = Append(processed, ItemIdx)
    /\ IF SkipCompleted(endpoint, Item.woo_order_id, completed_orders)
       THEN /\ successes' = CountSuccess(successes)
            /\ skippedIdx' = skippedIdx \cup {ItemIdx}
       ELSE /\ SkipCustomer(endpoint, Item)
            /\ UNCHANGED <<successes, skippedIdx>>
    /\ Advance
    /\ UNCHANGED <<file, endpoint, items, batch_size, resume_mode, completed_orders,
                   result, pending, runs, store0, uploadCalls, returnedIdx,
                   acceptedIdx, recordedIdx, savedOK, uploadVars, storeVars, orderVars, phoneVars>>

\* An iteration of `for item in batch` that uploads the item, up to the
\* return of the Upload Client: lines 173-188.  rs lists the outcomes of the
\* POSTs of the call `result = upload_to_shopify(endpoint, item)`; when the
\* call raises, except Exception ... continue (lines 205-207).
ProcessItem(rs) ==
    LET f == CallOutcome[rs]
    IN  /\ bpc = "loop"
        /\ ~SkipCompleted(endpoint, Item.woo_order_id, completed_orders)
        /\ ~SkipCustomer(endpoint, Item)
        /\ processed' = Append(processed, ItemIdx)
        /\ uploadCalls' = Append(uploadCalls, ItemIdx)
        /\ acceptedIdx' = IF f.nAccepted > 0 THEN acceptedIdx \cup {ItemIdx}
                          ELSE acceptedIdx
        /\ IF f.upc = "raised"
           THEN /\ OnItemException
                /\ UNCHANGED <<result, returnedIdx>>
           ELSE /\ result' = f.retval
                /\ returnedIdx' = returnedIdx \cup {ItemIdx}
                /\ bpc' = "uploaded"
                /\ UNCHANGED <<i, j>>
        /\ UNCHANGED <<file, endpoint, items, batch_size, resume_mode,
                       completed_orders, successes, pending, runs, store0,
                       skippedIdx, recordedIdx, savedOK,
                       uploadVars, storeVars, orderVars, phoneVars>>

\* Lines 190-195 after upload_to_shopify returned, up to the opening of the
\* progress file when save_completed_order has something to write.  `result`
\* is never read.
SaveProgress ==
    LET id == Item.woo_order_id
        s  == save_completed_order(file, id)
    IN  /\ bpc = "uploaded"
        /\ result' = "none"
        /\ IF ~SavesProgress(endpoint, id)
           THEN /\ successes' = CountSuccess(successes)
                /\ Advance
                /\ UNCHANGED <<file, pending, savedOK>>
           ELSE IF s.raises
           THEN /\ Advance
                /\ UNCHANGED <<file, pending, savedOK, successes>>
           ELSE IF s.writes
           THEN \* open(PROGRESS_FILE, 'w') truncates the file
                /\ file' = Truncated
                /\ pending' = s.list
                /\ bpc' = "saving"
                /\ UNCHANGED <<i, j, savedOK, successes>>
           ELSE /\ savedOK' = savedOK \cup {id}
                /\ successes' = CountSuccess(successes)
                /\ Advance
                /\ UNCHANGED <<file, pending>>
        /\ UNCHANGED <<endpoint, items, batch_size, resume_mode, completed_orders,
                       runs, store0, processed, uploadCalls, skippedIdx,
                       returnedIdx, acceptedIdx, recordedIdx, uploadVars, storeVars, orderVars, phoneVars>>

\* json.dump completes and the file is closed; then lines 193-195
FinishSave ==
    /\ bpc = "saving"
    /\ file' = json_dump(pending)
    /\ pending' = <<>>
    /\ recordedIdx' = recordedIdx \cup {ItemIdx}
    /\ savedOK' = savedOK \cup {Item.woo_order_id}
    /\ successes' = CountSuccess(successes)
    /\ Advance
    /\ UNCHANGED <<uploadVars, endpoint, items, batch_size, resume_mode,
                   completed_orders, result, runs, store0, processed,
                   uploadCalls,
                   skippedIdx, returnedIdx, acceptedIdx, storeVars, orderVars, phoneVars>>

\* The process is gone: the locals of batch_upload no longer exist, and the
\* history of the run is dropped with them.
ProcessGone ==
    /\ batch_size' = 1 /\ resume_mode' = FALSE
    /\ completed_orders' = ListOf(<<>>)
    /\ i' = 0 /\ j' = 0 /\ successes' = 0 /\ result' = "none" /\ pending' = <<>>
    /\ store0' = {}
    /\ processed' = <<>> /\ uploadCalls' = <<>>
    /\ skippedIdx' = {} /\ returnedIdx' = {} /\ acceptedIdx' = {}
    /\ recordedIdx' = {}

\* The process is terminated in the middle of a run.
Crash ==
    /\ bpc \in {"loop", "uploaded", "saving"}
    /\ bpc' = "crashed"
    /\ ProcessGone
    /\ UNCHANGED <<file, endpoint, items, runs, savedOK,
                   uploadVars, storeVars, orderVars, phoneVars>>

\* Menu choice 4 (and 'fresh') of a later invocation of the program, offered
\* when load_completed_orders() is not empty: clear_progress()
ClearProgress ==
    /\ bpc \in {"idle", "done", "crashed"}
    /\ LoadedIds(file) # {}
    /\ file' = clear_progress(file)
    /\ savedOK' = {}
    /\ bpc' = "idle"
    /\ ProcessGone
    /\ UNCHANGED <<endpoint, items, runs,
                   uploadVars, storeVars, orderVars, phoneVars>>

InitUploadVars ==
    /\ upc = "idle"
    /\ max_retries = DefaultMaxRetries
    /\ max_retry_cycles = DefaultMaxRetryCycles
    /\ cycle = 0 /\ attempt = 0 /\ posts = 0
    /\ last = NoPost /\ slept = <<>>
    /\ retval = "none" /\ raisedBy = "none"
    /\ rlCalls = 0 /\ rlReturn = <<>>
    /\ nAccepted = 0 /\ allTransport = TRUE

InitBatchVars ==
    /\ bpc = "idle"
    /\ batch_size = 1 /\ resume_mode = FALSE
    /\ completed_orders = ListOf(<<>>)
    /\ i = 0 /\ j = 0 /\ successes = 0 /\ result = "none" /\ pending = <<>>
    /\ runs = 0 /\ store0 = {}
    /\ processed = <<>> /\ uploadCalls = <<>>
    /\ skippedIdx = {} /\ returnedIdx = {} /\ acceptedIdx = {} /\ recordedIdx = {}
    /\ savedOK = {}

InitStoreVars ==
    /\ spc = "idle" /\ sarg = NoId /\ sprev = NoFile /\ sret = ListOf(<<>>)
    /\ swrote = FALSE
    /\ recorded = {} /\ fromEmpty = TRUE

\* load_woocommerce_orders has not been called
InitOrderVars ==
    /\ lpc = "idle" /\ raw = <<>> /\ raw0 = <<>> /\ fk = 0
    /\ fixed_order = "none" /\ fixed_orders = <<>>
    /\ test_mode = FALSE /\ test_count = DefaultTestCount
    /\ orders = <<>>

InitPhoneVars ==
    /\ ppc = "idle" /\ phone = PNone /\ formatted = PNone

\* No run has started
InitGhostVars ==
    /\ createdEarlier = {} /\ file0 = NoFile

\* The program starts with no progress file; the items and the endpoint are
\* the same in every run.
Init ==
    /\ file = NoFile
    /\ InitUploadVars /\ InitBatchVars /\ InitStoreVars
    /\ InitOrderVars /\ InitPhoneVars /\ InitGhostVars
    /\ endpoint \in {"orders", "customers"}
    /\ items \in IF endpoint = "orders" THEN SeqsUpTo(OrderItems, MaxItems)
                 ELSE SeqsUpTo(CustomerItems, MaxItems)

Next ==
    \/ \E bs \in 1..MaxBatch, rm \in BOOLEAN :
          BatchStart(bs, rm) /\ UNCHANGED ghostVars
    \/ SkipItem /\ UNCHANGED ghostVars
    \/ \E rs \in CompleteScripts : ProcessItem(rs) /\ UNCHANGED ghostVars
    \/ SaveProgress /\ UNCHANGED ghostVars
    \/ FinishSave /\ UNCHANGED ghostVars
    \/ Crash /\ UNCHANGED ghostVars
    \/ ClearProgress /\ UNCHANGED ghostVars

Spec == Init /\ [][Next]_vars

(***************************************************************************)
(* One run of batch_upload to its end with any batch_size, over lists long *)
(* enough for a short last batch, from the progress file that earlier runs *)
(* left: it is the last of the MaxRuns runs.                               *)
(***************************************************************************)
\* An item without woo_order_id, and two ids
BatchIds == {NoId, 1, 2}

BatchStores ==
    {NoFile,
     [kind |-> "object", entry |-> [t |-> "dict", v |-> <<>>]],
     json_dump(<<1>>)}

InitBatch ==
    /\ file \in BatchStores
    /\ InitUploadVars /\ InitStoreVars
    /\ bpc = "idle"
    /\ batch_size = 1 /\ resume_mode = FALSE
    /\ completed_orders = ListOf(<<>>)
    /\ i = 0 /\ j = 0 /\ successes = 0 /\ result = "none" /\ pending = <<>>
    /\ runs = MaxRuns - 1 /\ store0 = {}
    /\ processed = <<>> /\ uploadCalls = <<>>
    /\ skippedIdx = {} /\ returnedIdx = {} /\ acceptedIdx = {} /\ recordedIdx = {}
    /\ savedOK = LoadedIds(file)
    /\ InitOrderVars /\ InitPhoneVars /\ InitGhostVars
    /\ endpoint \in {"orders", "customers"}
    /\ items \in IF endpoint = "orders"
                 THEN SeqsUpTo([woo_order_id : BatchIds, email : {TRUE}],
                               MaxBatchItems)
                 ELSE SeqsUpTo(CustomerItems, MaxBatchItems)

\* The start of the run records the progress file it finds.
NextBatch ==
    \/ \E bs \in 1..MaxBatchSize, rm \in BOOLEAN :
          BatchStart(bs, rm) /\ file0' = file /\ UNCHANGED createdEarlier
    \/ SkipItem /\ UNCHANGED ghostVars
    \/ \E rs \in CompleteScripts : ProcessItem(rs) /\ UNCHANGED ghostVars
    \/ SaveProgress /\ UNCHANGED ghostVars
    \/ FinishSave /\ UNCHANGED ghostVars

SpecBatch == InitBatch /\ [][NextBatch]_vars

(***************************************************************************)
(* Runs of batch_upload on the same list of which every run after the      *)
(* first is in resume mode, a run being interrupted anywhere; the progress *)
(* file is not cleared in between.  The end of a run, by its return or by  *)
(* the termination of the process, adds the orders the run created to      *)
(* createdEarlier.                                                         *)
(***************************************************************************)
NextResumed ==
    \/ \E bs \in 1..MaxBatch, rm \in BOOLEAN :
          /\ runs = 0 \/ rm
          /\ BatchStart(bs, rm)
          /\ createdEarlier' = createdEarlier \cup CreatedNow
          /\ UNCHANGED file0
    \/ SkipItem /\ UNCHANGED ghostVars
    \/ \E rs \in CompleteScripts : ProcessItem(rs) /\ UNCHANGED ghostVars
    \/ SaveProgress /\ UNCHANGED ghostVars
    \/ FinishSave /\ UNCHANGED ghostVars
    \/ /\ Crash
       /\ createdEarlier' = createdEarlier \cup CreatedNow
       /\ UNCHANGED file0

SpecResumed == Init /\ [][NextResumed]_vars

(***************************************************************************)
(* upload_to_shopify called on its own, with any max_retries and           *)
(* max_retry_cycles.                                                       *)
(***************************************************************************)
DirectCall(R, C) ==
    /\ bpc = "idle"
    /\ upc \in {"idle", "returned", "raised"}
    /\ UploadEnter(R, C)
    /\ UNCHANGED <<file, batchVars, histVars, storeVars, orderVars, phoneVars, ghostVars>>

DirectPost(r) ==
    /\ bpc = "idle"
    /\ UploadPost(r)
    /\ UNCHANGED <<file, batchVars, histVars, storeVars, orderVars, phoneVars, ghostVars>>

InitUpload ==
    /\ file = NoFile
    /\ InitUploadVars /\ InitBatchVars /\ InitStoreVars
    /\ InitOrderVars /\ InitPhoneVars /\ InitGhostVars
    /\ endpoint = "orders"
    /\ items = <<>>

NextUpload ==
    \/ \E R \in 1..MaxR, C \in 1..MaxC : DirectCall(R, C)
    \/ \E r \in Responses : DirectPost(r)

SpecUpload == InitUpload /\ [][NextUpload]_vars

\* requests.post(..., timeout=15) ends, and so does every time.sleep: a call
\* that is about to POST does POST.
SpecUploadLive ==
    SpecUpload /\ WF_vars(\E r \in Responses : DirectPost(r))

(***************************************************************************)
(* The Progress Store called on its own, whatever the file holds.          *)
(***************************************************************************)
StoreIds == 0..MaxStoreId

StoreFiles ==
    {NoFile, Truncated,
     [kind |-> "nonobject", entry |-> NoEntry],
     [kind |-> "object", entry |-> NoEntry],
     [kind |-> "object", entry |-> [t |-> "scalar", v |-> <<>>]],
     [kind |-> "object", entry |-> [t |-> "dict", v |-> <<>>]]}
    \cup {json_dump(l) : l \in SeqsUpTo(StoreIds, 2)}

\* save_completed_order(id), run to its end
StoreSave(id) ==
    LET s == save_completed_order(file, id)
    IN  /\ bpc = "idle" /\ upc = "idle"
        /\ sprev' = file
        /\ sarg' = id
        /\ spc' = IF s.raises THEN "raised" ELSE "saved"
        /\ file' = IF s.writes THEN json_dump(s.list) ELSE file
        /\ recorded' = IF s.raises THEN recorded ELSE recorded \cup {id}
        /\ sret' = ListOf(<<>>)
        /\ swrote' = s.writes
        /\ UNCHANGED <<fromEmpty, uploadVars, batchVars, histVars, orderVars, phoneVars, ghostVars>>

\* load_completed_orders()
StoreLoad ==
    /\ bpc = "idle" /\ upc = "idle"
    /\ sprev' = file
    /\ sret' = load_completed_orders(file)
    /\ spc' = "loaded"
    /\ sarg' = NoId
    /\ swrote' = FALSE
    /\ UNCHANGED <<file, recorded, fromEmpty, uploadVars, batchVars, histVars, orderVars, phoneVars, ghostVars>>

\* clear_progress()
StoreClear ==
    /\ bpc = "idle" /\ upc = "idle"
    /\ sprev' = file
    /\ file' = clear_progress(file)
    /\ spc' = "cleared"
    /\ recorded' = {}
    /\ fromEmpty' = TRUE
    /\ sarg' = NoId
    /\ sret' = ListOf(<<>>)
    /\ swrote' = FALSE
    /\ UNCHANGED <<uploadVars, batchVars, histVars, orderVars, phoneVars, ghostVars>>

InitStore ==
    /\ file \in StoreFiles
    /\ InitUploadVars /\ InitBatchVars
    /\ InitOrderVars /\ InitPhoneVars /\ InitGhostVars
    /\ spc = "idle" /\ sarg = NoId /\ sprev = file /\ sret = ListOf(<<>>)
    /\ swrote = FALSE
    /\ recorded = {}
    /\ fromEmpty = (file = NoFile)
    /\ endpoint = "orders"
    /\ items = <<>>

NextStore ==
    \/ \E id \in StoreIds : StoreSave(id)
    \/ StoreLoad
    \/ StoreClear

SpecStore == InitStore /\ [][NextStore]_vars

(***************************************************************************)
(* load_woocommerce_orders(test_mode, test_count), from the return of      *)
(* json.load on: the Sanitizer on every order, then the test substitution  *)
(* or the phone formatting of the real path.  The list returned is what    *)
(* test_upload and full_upload pass to batch_upload("orders", ...), which  *)
(* hands each item, as it is, to upload_to_shopify.                        *)
(***************************************************************************)
CreatedDate == "2024-01-01T00:00:00"
PaidDate    == "2024-01-02T00:00:00"
TenDigits   == <<"(", "5", "5", "5", ")", "5", "5", "5", "-", "0", "1", "0", "0">>
ShortPhone  == <<"5", "5", "5", "-", "0", "1">>

PaidOrders ==
    {Order(1, "paid", pa, ca, "a@b.com") :
        pa \in {Absent, None, "", "null", PaidDate},
        ca \in {Absent, None, CreatedDate}}
NoEmailOrders ==
    {Order(2, fs, Absent, CreatedDate, em) :
        fs \in {"paid", "pending"}, em \in {Absent, None, ""}}
UnpaidOrders ==
    {Order(3, fs, pa, CreatedDate, "c@d.com") :
        fs \in {"pending", "refunded", Absent}, pa \in {Absent, None, PaidDate}}
VoidedOrders ==
    {Order(4, "voided", pa, CreatedDate, em) :
        pa \in {Absent, PaidDate}, em \in {Absent, "c@d.com"}}
ContactOrders ==
    {[Order(5, "paid", PaidDate, CreatedDate, "e@f.com") EXCEPT
         !.fulfillment_status = "fulfilled", !.phone = ph,
         !.billing_address = ba, !.shipping_address = ba] :
        ph \in {PAbsent, PStr(TenDigits)},
        ba \in {NoAddress, Address("Ann", "Lee", PStr(ShortPhone))}}

RawOrders ==
    PaidOrders \cup NoEmailOrders \cup UnpaidOrders \cup VoidedOrders
    \cup ContactOrders

\* The dicts the list refs points at
Deref(refs, objs) == [k \in 1..Len(refs) |-> objs[refs[k]]]

\* The dicts objs after those refs points at have become vals
WriteBack(refs, objs, vals) ==
    [k \in 1..Len(objs) |->
        IF \E m \in 1..Len(refs) : refs[m] = k
        THEN vals[CHOOSE m \in 1..Len(refs) : refs[m] = k]
        ELSE objs[k]]

\* One iteration of `for order in orders`: lines 372-375
FixOrder ==
    LET f == fix_order_data_for_shopify(raw[fk + 1])
    IN  /\ lpc = "fixing" /\ fk < Len(raw)
        /\ raw' = [raw EXCEPT ![fk + 1] = f.order]
        /\ fixed_order' = IF f.excluded THEN "None" ELSE "order"
        /\ fixed_orders' = IF f.excluded THEN fixed_orders
                           ELSE Append(fixed_orders, fk + 1)
        /\ fk' = fk + 1
        /\ UNCHANGED <<lpc, raw0, test_mode, test_count, orders>>
        /\ UNCHANGED <<file, uploadVars, batchVars, histVars, storeVars, phoneVars, ghostVars>>

\* if test_mode: orders = create_dummy_test_orders(orders, test_count)
FinishTest ==
    LET d == create_dummy_test_orders(Deref(fixed_orders, raw), test_count)
    IN  /\ lpc = "fixing" /\ fk = Len(raw) /\ test_mode
        /\ raw' = WriteBack(fixed_orders, raw, d.orders)
        /\ orders' = d.dummy_orders
        /\ lpc' = "loaded"
        /\ UNCHANGED <<raw0, fk, fixed_order, fixed_orders, test_mode, test_count>>
        /\ UNCHANGED <<file, uploadVars, batchVars, histVars, storeVars, phoneVars, ghostVars>>

\* else: the phones of every order are formatted in place (lines 386-394)
FinishReal ==
    LET vals == [k \in 1..Len(fixed_orders) |-> FormatPhones(raw[fixed_orders[k]])]
    IN  /\ lpc = "fixing" /\ fk = Len(raw) /\ ~test_mode
        /\ raw' = WriteBack(fixed_orders, raw, vals)
        /\ orders' = vals
        /\ lpc' = "loaded"
        /\ UNCHANGED <<raw0, fk, fixed_order, fixed_orders, test_mode, test_count>>
        /\ UNCHANGED <<file, uploadVars, batchVars, histVars, storeVars, phoneVars, ghostVars>>

\* json.load has returned the export (line 368)
InitOrders ==
    /\ file = NoFile
    /\ InitUploadVars /\ InitBatchVars /\ InitStoreVars /\ InitPhoneVars /\ InitGhostVars
    /\ endpoint = "orders" /\ items = <<>>
    /\ lpc = "fixing"
    /\ raw \in SeqsUpTo(RawOrders, MaxOrders)
    /\ raw0 = raw
    /\ fk = 0 /\ fixed_order = "none" /\ fixed_orders = <<>>
    /\ test_mode \in BOOLEAN
    /\ test_count = DefaultTestCount
    /\ orders = <<>>

NextOrders ==
    \/ FixOrder
    \/ FinishTest
    \/ FinishReal

SpecOrders == InitOrders /\ [][NextOrders]_vars

(***************************************************************************)
(* The same path on longer lists of orders the Sanitizer keeps, with any   *)
(* test_count: create_dummy_test_orders(orders, test_count).               *)
(***************************************************************************)
DummyInputs ==
    {[Order(1, "paid", PaidDate, CreatedDate, "a@b.com") EXCEPT
         !.fulfillment_status = "fulfilled", !.phone = PStr(TenDigits),
         !.billing_address = Address("Ann", "Lee", PStr(ShortPhone)),
         !.shipping_address = Address("Ann", "Lee", PAbsent)],
     Order(2, "pending", Absent, PaidDate, "c@d.com")}

InitDummy ==
    /\ file = NoFile
    /\ InitUploadVars /\ InitBatchVars /\ InitStoreVars /\ InitPhoneVars /\ InitGhostVars
    /\ endpoint = "orders" /\ items = <<>>
    /\ lpc = "fixing"
    /\ raw \in SeqsUpTo(DummyInputs, MaxDummyOrders)
    /\ raw0 = raw
    /\ fk = 0 /\ fixed_order = "none" /\ fixed_orders = <<>>
    /\ test_mode \in BOOLEAN
    /\ test_count \in 0..MaxCount
    /\ orders = <<>>

SpecDummy == InitDummy /\ [][NextOrders]_vars

(***************************************************************************)
(* format_phone_e164 called on its own.                                    *)
(***************************************************************************)
RECURSIVE Fives(_)
Fives(n) == IF n = 0 THEN <<>> ELSE <<"5">> \o Fives(n - 1)

PhoneHeads == {<<>>, <<"1">>, <<"2">>, <<"+", "1", " ">>, <<"(">>}

PhoneInputs ==
    {PNone, PStr(<<>>)}
    \cup {PStr(h \o Fives(n)) : h \in PhoneHeads, n \in 0..MaxPhoneDigits}
    \cup {PStr(h \o <<"5", "-">> \o Fives(n) \o <<" ">>) :
             h \in PhoneHeads, n \in 0..MaxPhoneDigits}

FormatPhone ==
    /\ ppc = "idle"
    /\ formatted' = format_phone_e164(phone)
    /\ ppc' = "done"
    /\ UNCHANGED <<phone, file, uploadVars, batchVars, histVars, storeVars, orderVars, ghostVars>>

InitPhone ==
    /\ file = NoFile
    /\ InitUploadVars /\ InitBatchVars /\ InitStoreVars /\ InitOrderVars /\ InitGhostVars
    /\ endpoint = "orders" /\ items = <<>>
    /\ ppc = "idle"
    /\ phone \in PhoneInputs
    /\ formatted = PNone

NextPhone == FormatPhone

SpecPhone == InitPhone /\ [][NextPhone]_vars

(***************************************************************************)
(* Properties of upload_to_shopify (SpecUpload)                            *)
(***************************************************************************)
\* The step just taken was a POST
Posted == upc = "try" /\ posts' = posts + 1

\* C1: whatever the outcomes of the POSTs, upload_to_shopify never returns
\* normally without the parsed body of a response that was accepted: when it
\* returns, it returns a body (never None).
C1_ReturnsBody ==
    upc = "returned" => (retval = "body" /\ nAccepted >= 1)

\* C3: a 429 (with a usable Retry-After, or none) makes the client sleep
\* Retry-After seconds (5 by default) and retry the same attempt: the cycle
\* and attempt indices after it are the ones before it.
C3_429KeepsAttempt ==
    [][(/\ Posted
        /\ last'.kind = "response" /\ last'.status = 429
        /\ ~retry_after(last').raises)
       => (/\ slept' = <<1000 * retry_after(last').seconds>>
           /\ upc' = "try"
           /\ cycle' = cycle /\ attempt' = attempt)]_vars

\* C4: a status >= 400 other than 429 is terminal for the call: the error is
\* raised to the caller at once, with no backoff sleep and no further POST.
C4_ErrorStatusTerminal ==
    [][(/\ Posted
        /\ last'.kind = "response"
        /\ last'.status >= 400 /\ last'.status # 429)
       => (upc' = "raised" /\ slept' = <<>>)]_vars

\* C5: when every POST fails at transport level, with max_retries = R and
\* max_retry_cycles = C: the POST at (cycle, attempt) is number
\* cycle * R + attempt + 1; the sleep after failed attempt a < R - 1 is 2^a s;
\* after the last attempt of a cycle but the last the sleep is 10 s and the
\* next cycle starts at attempt 0; after the last attempt of the last cycle
\* the failure is raised with no sleep, exactly R * C POSTs having been made.
C5_TransportBackoff ==
    /\ [](allTransport /\ upc = "try" => posts = cycle * max_retries + attempt)
    /\ [](allTransport /\ posts > 0 => upc \in {"try", "raised"})
    /\ [](allTransport /\ upc = "raised"
            => /\ posts = max_retries * max_retry_cycles
               /\ slept = <<>>
               /\ raisedBy = "RequestException")
    /\ [][(Posted /\ allTransport')
          => IF attempt < max_retries - 1
             THEN /\ slept' = <<1000 * Pow2(attempt)>>
                  /\ upc' = "try" /\ cycle' = cycle /\ attempt' = attempt + 1
             ELSE IF cycle < max_retry_cycles - 1
             THEN /\ slept' = <<10000>>
                  /\ upc' = "try" /\ cycle' = cycle + 1 /\ attempt' = 0
             ELSE /\ slept' = <<>>
                  /\ upc' = "raised"]_vars

\* C5 witness: the default call (3 attempts, 5 cycles) has raised after 15
\* transport failures
C5_Witness ==
    /\ upc = "raised" /\ allTransport
    /\ max_retries = 3 /\ max_retry_cycles = 5 /\ posts = 15

(***************************************************************************)
(* Properties of batch_upload (Spec)                                       *)
(***************************************************************************)
IdOf(k) == items[k].woo_order_id

\* Items of the list that a resumed orders run finds in the Progress Store
InStoreAtStart ==
    {k \in 1..Len(items) : endpoint = "orders" /\ resume_mode /\ IdOf(k) \in store0}

\* C2: on the orders endpoint an id is written to the Progress Store only
\* for an item for which some POST was accepted (non-429, status < 400).
C2_RecordedOnlyIfAccepted ==
    recordedIdx \subseteq acceptedIdx

\* C6: when the process is terminated during a run, load_completed_orders
\* still returns every id whose save_completed_order call had completed.
C6_CrashKeepsCompleted ==
    bpc = "crashed" => savedOK \subseteq LoadedIds(file)

\* C7: on the orders endpoint the Upload Client is never called for an item
\* whose id is in the Progress Store at the start of a resumed run, and such
\* an item is counted as a success; it is called for every other item; with
\* resume_mode false nothing is skipped. With store {1} and ids 1, 2 whose
\* upload succeeds, the only call is for id 2 and the count is 2.
C7_ResumeSkips ==
    endpoint = "orders" =>
        /\ skippedIdx \subseteq InStoreAtStart
        /\ Range(uploadCalls) \cap InStoreAtStart = {}
        /\ successes >= Cardinality(skippedIdx)
        /\ ~resume_mode => skippedIdx = {}
        /\ bpc = "done" =>
              /\ skippedIdx = InStoreAtStart
              /\ Range(uploadCalls) = (1..Len(items)) \ InStoreAtStart
        /\ (/\ bpc = "done" /\ resume_mode /\ store0 = {1}
            /\ Len(items) = 2 /\ IdOf(1) = 1 /\ IdOf(2) = 2
            /\ returnedIdx = {2})
           => (uploadCalls = <<2>> /\ successes = 2)

\* C7 witness: the resume scenario of the specification
C7_Witness ==
    /\ bpc = "done" /\ endpoint = "orders" /\ resume_mode /\ store0 = {1}
    /\ Len(items) = 2 /\ IdOf(1) = 1 /\ IdOf(2) = 2
    /\ returnedIdx = {2} /\ uploadCalls = <<2>> /\ successes = 2

\* C8: a failure on one item never stops the batch: the items are processed
\* once each, in list order, and the run ends after the last one; the count
\* returned is the number of items skipped as completed plus the number for
\* which the Upload Client returned, never more than the number of items.
C8_BatchContinues ==
    /\ Len(processed) <= Len(items)
    /\ \A k \in 1..Len(processed) : processed[k] = k
    /\ bpc \in {"uploaded", "saving"} => Len(processed) = ItemIdx
    /\ bpc = "loop" => Len(processed) = ItemIdx - 1
    /\ bpc = "done" =>
          /\ Len(processed) = Len(items)
          /\ successes = Cardinality(skippedIdx) + Cardinality(returnedIdx)
          /\ successes <= Len(items)

\* C8 witness: the first upload raised, the second returned, the run ended
C8_Witness ==
    /\ bpc = "done" /\ Len(items) = 2
    /\ uploadCalls = <<1, 2>> /\ returnedIdx = {2} /\ successes = 1

(***************************************************************************)
(* Properties of the Progress Store (SpecStore)                            *)
(***************************************************************************)
\* C9: whatever the progress file holds (nothing, a valid object, or
\* something unreadable), a save_completed_order or load_completed_orders
\* call loses no id: every id load_completed_orders returned before the call
\* is returned after it, and a save that returns has added its id; only
\* clear_progress makes the set smaller.
C9_StoreOnlyGrows ==
    /\ spc \in {"saved", "raised", "loaded"}
          => LoadedIds(sprev) \subseteq LoadedIds(file)
    /\ spc = "saved" => sarg \in LoadedIds(file)
    /\ spc = "loaded" => file = sprev

\* C9 witness: a save added a new id to a store that already held ids
C9_Witness ==
    /\ spc = "saved" /\ swrote
    /\ LoadedIds(sprev) # {} /\ sarg \notin LoadedIds(sprev)

\* C10: recording an id that is already in the store leaves the file as it
\* was, without rewriting it; from an empty store on, the stored list holds
\* each recorded id exactly once (the same id twice: a list of length 1).
C10_SaveIdempotent ==
    /\ (spc = "saved" /\ sarg \in LoadedIds(sprev)) => (file = sprev /\ ~swrote)
    /\ (fromEmpty /\ recorded # {})
          => /\ file.kind = "object" /\ file.entry.t = "list"
             /\ Range(file.entry.v) = recorded
             /\ Len(file.entry.v) = Cardinality(recorded)
    /\ (fromEmpty /\ recorded = {}) => file = NoFile

\* C10 witness: the same id recorded twice, starting from an empty store
C10_Witness ==
    /\ spc = "saved" /\ fromEmpty
    /\ sarg \in LoadedIds(sprev) /\ recorded = {sarg}
    /\ file.entry.v = <<sarg>>

\* C11: load_completed_orders never raises, and it returns the empty list
\* whenever the progress file is absent (as it is after clear_progress), is
\* not JSON, is JSON that is no object, or is an object whose
\* completed_orders entry is not a list of ids.
C11_LoadFailOpen ==
    spc = "loaded"
        => /\ sret.t = "list"
           /\ (sprev.kind # "object" \/ sprev.entry.t # "list") => sret.v = <<>>

(***************************************************************************)
(* Properties of the Rate Limiter inside upload_to_shopify (SpecUpload)    *)
(***************************************************************************)
\* C15: a POST answered 200 invokes the Rate Limiter exactly once and the
\* call then returns the parsed body, whatever the call-limit header holds
\* (absent, well-formed, not numeric, wrong number of parts, a max of 0);
\* after a 429 or any other non-200 outcome the Rate Limiter is not invoked.
C15_RateLimiterOn200 ==
    [][Posted =>
        IF last'.kind = "response" /\ last'.status = 200
        THEN /\ rlCalls' = rlCalls + 1
             /\ upc' = "returned" /\ retval' = "body" /\ raisedBy' = "none"
        ELSE rlCalls' = rlCalls]_vars

\* The header as the claim reads it: well-formed is current/max, both
\* integers; a missing header counts as 0/40.
WellFormed(h) ==
    ~h.present \/ (Len(h.parts) = 2 /\ h.parts[1].num /\ h.parts[2].num)
CurrentOf(h) == IF h.present THEN h.parts[1].val ELSE 0
MaxOf(h)     == IF h.present THEN h.parts[2].val ELSE 40

\* C16: after a 200 the Rate Limiter sleeps 2.0 s when current >= 35, 1.0 s
\* when 30 <= current < 35, 0.5 s when 20 <= current < 30 and 0.1 s below,
\* and returns (current, max); a missing header is 0/40; a header that does
\* not parse gives 0.5 s and (0, 40).
C16_SleepTable ==
    (last.kind = "response" /\ last.status = 200)
        => IF WellFormed(last.limit)
           THEN LET c == CurrentOf(last.limit)
                IN  /\ c >= 35 => slept = <<2000>>
                    /\ (30 <= c /\ c < 35) => slept = <<1000>>
                    /\ (20 <= c /\ c < 30) => slept = <<500>>
                    /\ c < 20 => slept = <<100>>
                    /\ rlReturn = <<c, MaxOf(last.limit)>>
           ELSE slept = <<500>> /\ rlReturn = <<0, 40>>

(***************************************************************************)
(* Further properties of batch_upload (Spec)                               *)
(***************************************************************************)
\* C17: on the customers endpoint, the iteration on an item without an
\* email does not call the Upload Client, changes neither the success count
\* nor the progress file, and moves on to the next item (or ends the run
\* after the last one).  A step that terminates the process is no iteration.
C17_CustomerWithoutEmail ==
    [][(bpc = "loop" /\ endpoint = "customers" /\ ~Item.email /\ bpc' # "crashed")
        => /\ uploadCalls' = uploadCalls
           /\ successes' = successes
           /\ file' = file
           /\ processed' = Append(processed, ItemIdx)
           /\ bpc' = IF ItemIdx < Len(items) THEN "loop" ELSE "done"
           /\ bpc' = "loop" => i' + j' + 1 = ItemIdx + 1]_vars

\* C17 witness: the first of two customers has no email; the second is
\* uploaded and is the only success
C17_Witness ==
    /\ bpc = "done" /\ endpoint = "customers" /\ Len(items) = 2
    /\ ~items[1].email /\ items[2].email
    /\ processed = <<1, 2>> /\ uploadCalls = <<2>> /\ successes = 1

\* C20: after an uninterrupted run on orders, the source id of every item
\* whose upload returned with an accepted response is in the Progress Store,
\* whatever the id (0 included; an item without woo_order_id has no id to
\* store), and the run added no id of an item whose upload raised.
C20_UploadedThenRecorded ==
    (bpc = "done" /\ endpoint = "orders")
        => /\ \A k \in returnedIdx \cap acceptedIdx :
                IdOf(k) # NoId => IdOf(k) \in LoadedIds(file)
           /\ recordedIdx \subseteq returnedIdx

(***************************************************************************)
(* Properties of the Order Sanitizer and of the path to the Upload Client  *)
(* (SpecOrders)                                                            *)
(***************************************************************************)
\* C12: every order load_woocommerce_orders returns, which batch_upload
\* hands to the Upload Client as it is, has a non-empty email, a
\* processed_at that is present and not null when it is paid, and no
\* processed_at key when it is not paid; also for a paid order whose
\* created_at is missing or null.
C12_HandedOrdersValid ==
    lpc = "loaded" =>
        \A k \in 1..Len(orders) :
            /\ Truthy(orders[k].email)
            /\ Get(orders[k].financial_status) = "paid"
                  => orders[k].processed_at \notin {Absent, None}
            /\ Get(orders[k].financial_status) # "paid"
                  => orders[k].processed_at = Absent

\* The latest call of fix_order_data_for_shopify: the dict as it was passed
\* and as the call left it
FixIn  == raw0[fk]
FixOut == raw[fk]

\* C13: fix_order_data_for_shopify excludes a voided order and an order
\* without email; otherwise it returns the order, with processed_at equal to
\* created_at (as order.get reads both) when the order is paid and its
\* processed_at was missing, null, empty or "null", with processed_at kept
\* when it is paid and had another value, with no processed_at key when it
\* is not paid, and with every other field as it was.
C13_SanitizerRules ==
    (lpc = "fixing" /\ fk >= 1) =>
        /\ Get(FixIn.financial_status) = "voided" => fixed_order = "None"
        /\ ~Truthy(FixIn.email) => fixed_order = "None"
        /\ (Get(FixIn.financial_status) # "voided" /\ Truthy(FixIn.email))
              => fixed_order = "order"
        /\ fixed_order = "order" =>
              /\ (Get(FixIn.financial_status) = "paid"
                    /\ FixIn.processed_at \in {Absent, None, "", "null"})
                    => Get(FixOut.processed_at) = Get(FixOut.created_at)
              /\ (Get(FixIn.financial_status) = "paid"
                    /\ FixIn.processed_at \notin {Absent, None, "", "null"})
                    => FixOut.processed_at = FixIn.processed_at
              /\ Get(FixIn.financial_status) # "paid"
                    => FixOut.processed_at = Absent
              /\ [FixOut EXCEPT !.processed_at = FixIn.processed_at] = FixIn

\* C13 witness: a paid order whose processed_at was the text "null" comes
\* back with its created_at as processed_at
C13_Witness ==
    /\ lpc = "fixing" /\ fk >= 1 /\ fixed_order = "order"
    /\ FixIn.financial_status = "paid" /\ FixIn.processed_at = "null"
    /\ FixOut.processed_at = CreatedDate

\* C14: fix_order_data_for_shopify leaves the order passed in as it was,
\* whether it returns a record or excludes the order.
C14_SanitizerPure ==
    lpc = "fixing" => raw = raw0

(***************************************************************************)
(* Properties of format_phone_e164 (SpecPhone)                             *)
(***************************************************************************)
\* The digits left after stripping every other character of the input
DigitsOf(p) == IF p.t = "str" THEN SelectSeq(p.s, IsDigit) ELSE <<>>

\* C18: with d the digits of the input, format_phone_e164 returns "+1" d
\* when d has 10 digits, "+" d when d has 11 digits and starts with 1, "+" d
\* for any other d of 10 or more digits, and nothing when d has fewer than
\* 10 digits or the input is empty.
C18_PhoneFormat ==
    ppc = "done" =>
        LET d == DigitsOf(phone)
        IN  /\ Len(d) = 10 => formatted = PStr(<<"+", "1">> \o d)
            /\ (Len(d) = 11 /\ d[1] = "1") => formatted = PStr(<<"+">> \o d)
            /\ (Len(d) >= 10 /\ Len(d) # 10 /\ ~(Len(d) = 11 /\ d[1] = "1"))
                  => formatted = PStr(<<"+">> \o d)
            /\ Len(d) < 10 => formatted = PNone
            /\ (phone = PNone \/ phone = PStr(<<>>)) => formatted = PNone

\* C18 witness: ten digits among other characters get the prefix +1
C18_Witness ==
    /\ ppc = "done"
    /\ phone = PStr(<<"(", "5", "-">> \o Fives(9) \o <<" ">>)
    /\ formatted = PStr(<<"+", "1">> \o Fives(10))

(***************************************************************************)
(* Properties of create_dummy_test_orders (SpecDummy)                      *)
(***************************************************************************)
\* C19: create_dummy_test_orders(orders, test_count) leaves the list passed
\* in and its orders as they were and returns min(test_count, len(orders))
\* orders; the i-th (from 0) has the (i mod 4)-th test address as email, the
\* created_at and fulfillment_status of orders[i], and a note naming the
\* woo_order_id of orders[i].
C19_DummyOrders ==
    (lpc = "loaded" /\ test_mode) =>
        LET given == Deref(fixed_orders, raw0)
            cnt == IF test_count < Len(given) THEN test_count ELSE Len(given)
        IN  /\ raw = raw0
            /\ Len(TestEmails) = 4
            /\ Len(orders) = cnt
            /\ \A idx \in 0..(cnt - 1) :
                  /\ orders[idx + 1].email = TestEmails[(idx % 4) + 1]
                  /\ orders[idx + 1].created_at = given[idx + 1].created_at
                  /\ orders[idx + 1].fulfillment_status
                        = given[idx + 1].fulfillment_status
                  /\ orders[idx + 1].note.t = "TEST ORDER"
                  /\ orders[idx + 1].note.id = given[idx + 1].woo_order_id

\* C19 witness: five orders and a larger test_count; the fifth dummy order
\* has the first test address again
C19_Witness ==
    /\ lpc = "loaded" /\ test_mode
    /\ Len(raw0) = 5 /\ test_count = 6 /\ Len(orders) = 5
    /\ orders[5].email = TestEmails[1]
    /\ orders[5].note = TestNote(5, raw0[5].woo_order_id)

C22_CreatedOnce ==
    endpoint = "orders" =>
        \A k \in acceptedIdx :
            IdOf(k) # NoId =>
                /\ IdOf(k) \notin createdEarlier
                /\ \A m \in acceptedIdx : IdOf(m) = IdOf(k) => m = k


(***************************************************************************)
(* Batch size                                                              *)
(***************************************************************************)
\* The run of batch_upload with batch_size = 1 on the items, the progress
\* file and the resume_mode of the present run, each call of the Upload
\* Client ending as it did in the present run (returnedIdx): r is the run
\* before the item at 0-based position r.i.
SequentialItem(r) ==
    LET k    == r.i + 1
        id   == items[k].woo_order_id
        co   == IF endpoint = "orders" /\ resume_mode
                THEN load_completed_orders(file0) ELSE ListOf(<<>>)
        s    == save_completed_order(r.file, id)
        call == [r EXCEPT !.calls = Append(r.calls, k)]
    IN  IF SkipCompleted(endpoint, id, co)
        THEN [r EXCEPT !.successes = CountSuccess(r.successes)]
        ELSE IF SkipCustomer(endpoint, items[k]) THEN r
        ELSE IF k \notin returnedIdx THEN call
        ELSE IF ~SavesProgress(endpoint, id)
        THEN [call EXCEPT !.successes = CountSuccess(r.successes)]
        ELSE IF s.raises THEN call
        ELSE [call EXCEPT !.successes = CountSuccess(r.successes),
                          !.file = IF s.writes THEN json_dump(s.list)
                                   ELSE r.file]

RECURSIVE SequentialFrom(_)
SequentialFrom(r) ==
    LET after == SequentialItem(r)
        n     == NextPos(r.i, 0, Len(items), 1)
    IN  IF n.done THEN after ELSE SequentialFrom([after EXCEPT !.i = n.i])

SequentialRun ==
    LET start == [i |-> 0, file |-> file0, successes |-> 0, calls |-> <<>>]
    IN  IF Len(items) = 0 THEN start ELSE SequentialFrom(start)

\* C23: the outcome of batch_upload does not depend on batch_size: whatever
\* batch_size >= 1 a run was started with, once it has ended the sequence of
\* its Upload Client calls, its success count and the progress file are
\* those of the run with batch_size = 1 on the same items, initial progress
\* file, resume_mode and per-item upload outcomes.
C23_BatchSizeIrrelevant ==
    bpc = "done" =>
        /\ uploadCalls = SequentialRun.calls
        /\ successes = SequentialRun.successes
        /\ file = SequentialRun.file

C23_Witness ==
    /\ bpc = "done" /\ batch_size = 2 /\ Len(items) = 3
    /\ endpoint = "orders" /\ resume_mode
    /\ file0 = json_dump(<<1>>)
    /\ skippedIdx = {2} /\ uploadCalls = <<1, 3>> /\ returnedIdx = {3}
    /\ successes = 2 /\ file = json_dump(<<1, 2>>)

====
